---- MODULE Spec2Model ----
(***************************************************************************)
(* Model of build_index.py: the scan of a directory tree for *.html files  *)
(* (build_file_tree), the rendering of the index document (generate_cards  *)
(* and the loops of main) and the write of the document back to disk.      *)
(*                                                                         *)
(* Strings are sequences of one-character strings, so that lower(), "in",  *)
(* endswith() and the comparison of strings are computed character by      *)
(* character.  A path is the sequence of its components, from the          *)
(* filesystem root.  The document is kept structured: the list of section  *)
(* fragments (sections_html), each with its subsection fragments, each     *)
(* with its cards; a card keeps the href and the category label.  The file *)
(* size, the display name and the page title of a card are left out.       *)
(***************************************************************************)
EXTENDS Integers, Sequences, FiniteSets, TLC

VARIABLES fs, dirs, runs, status, output_path, tree, output_html, summary

vars == <<fs, dirs, runs, status, output_path, tree, output_html, summary>>

(***************************************************************************)
(* Bounds.                                                                 *)
(***************************************************************************)
MaxFiles == 3
MaxRuns == 2

(***************************************************************************)
(* Characters and strings.                                                 *)
(***************************************************************************)
UpperCase == <<"A","B","C","D","E","F","G","H","I","J","K","L","M",
               "N","O","P","Q","R","S","T","U","V","W","X","Y","Z">>

LowerCase == <<"a","b","c","d","e","f","g","h","i","j","k","l","m",
               "n","o","p","q","r","s","t","u","v","w","x","y","z">>

\* the characters in use, in code point order
CodeOrder == <<"-", ".", "1", "2", "3">> \o UpperCase \o <<"_">> \o LowerCase

Ord(c) == CHOOSE i \in 1..Len(CodeOrder) : CodeOrder[i] = c

lower(s) ==
    [i \in 1..Len(s) |->
        IF \E k \in 1..Len(UpperCase) : UpperCase[k] = s[i]
        THEN LowerCase[CHOOSE k \in 1..Len(UpperCase) : UpperCase[k] = s[i]]
        ELSE s[i]]

\* sub in s
Contains(sub, s) ==
    \E i \in 0..(Len(s) - Len(sub)) : SubSeq(s, i + 1, i + Len(sub)) = sub

endswith(s, suf) ==
    /\ Len(suf) <= Len(s)
    /\ SubSeq(s, Len(s) - Len(suf) + 1, Len(s)) = suf

\* s < t for two strings
StrLess(s, t) ==
    \E i \in 1..(Len(t)) :
        /\ i <= Len(s) + 1
        /\ \A j \in 1..(i - 1) : s[j] = t[j]
        /\ \/ i = Len(s) + 1
           \/ i <= Len(s) /\ Ord(s[i]) < Ord(t[i])

\* some enumeration of a finite set
SetToSeq(S) ==
    LET enum[T \in SUBSET S] ==
            IF T = {} THEN <<>>
            ELSE LET x == CHOOSE y \in T : TRUE IN <<x>> \o enum[T \ {x}]
    IN  enum[S]

Reverse(s) == [i \in 1..Len(s) |-> s[Len(s) + 1 - i]]

(***************************************************************************)
(* String literals of the program and of the inputs.                       *)
(***************************************************************************)
s_archipelago == <<"a","r","c","h","i","p","e","l","a","g","o">>
s_wwrando == <<"w","w","r","a","n","d","o">>
s_Root == <<"R","o","o","t">>
s_single_player == <<"s","i","n","g","l","e","-","p","l","a","y","e","r">>
s_p1 == <<"p","1">>
s_p2 == <<"p","2">>
s_p3 == <<"p","3">>
s_combined == <<"c","o","m","b","i","n","e","d">>
s_Files == <<"F","i","l","e","s">>
s_dot_html == <<".","h","t","m","l">>
s_heatmap == <<"-","h","e","a","t","m","a","p">>
s_items == <<"-","i","t","e","m","s">>
s_locations == <<"-","l","o","c","a","t","i","o","n","s">>
s_index_html == <<"i","n","d","e","x">> \o s_dot_html
s_dotdot == <<".",".">>

SECTION_ORDER == <<s_archipelago, s_wwrando, s_Root>>

SUBSECTION_ORDER == <<s_single_player, s_p1, s_p2, s_p3, s_combined, s_Files>>

(***************************************************************************)
(* Paths.                                                                  *)
(***************************************************************************)
\* Path.name
name(f) == f[Len(f)]

\* Path.parent
parent(f) == SubSeq(f, 1, Len(f) - 1)

\* Path.suffix: the name from its last dot on, empty when the name has no
\* dot, starts with its only dot or ends with a dot
suffix(f) ==
    LET n == name(f)
        dots == {i \in 1..Len(n) : n[i] = "."}
    IN  IF dots = {} THEN <<>>
        ELSE LET i == CHOOSE d \in dots : \A e \in dots : e <= d
             IN  IF i > 1 /\ i < Len(n) THEN SubSeq(n, i, Len(n)) ELSE <<>>

\* f lies below the directory d
IsUnder(f, d) == Len(d) < Len(f) /\ SubSeq(f, 1, Len(d)) = d

\* f.relative_to(d), defined when IsUnder(f, d)
relative_to(f, d) == SubSeq(f, Len(d) + 1, Len(f))

\* os.path.relpath(f, start) for two absolute, normalised paths
relpath(f, start) ==
    LET common == {k \in 0..Len(start) :
                      k <= Len(f) /\ SubSeq(f, 1, k) = SubSeq(start, 1, k)}
        k == CHOOSE c \in common : \A e \in common : e <= c
    IN  [i \in 1..(Len(start) - k) |-> s_dotdot] \o SubSeq(f, k + 1, Len(f))

\* p < q for two paths: the comparison of their lists of components
PathLess(p, q) ==
    \E i \in 1..Len(q) :
        /\ i <= Len(p) + 1
        /\ \A j \in 1..(i - 1) : p[j] = q[j]
        /\ \/ i = Len(p) + 1
           \/ i <= Len(p) /\ StrLess(p[i], q[i])

PathLe(p, q) == ~PathLess(q, p)

\* s with x inserted after its first k elements
InsertAt(s, x, k) == SubSeq(s, 1, k) \o <<x>> \o SubSeq(s, k + 1, Len(s))

\* the sorted list of paths s with x inserted after the elements not above it
InsertPath(s, x) ==
    InsertAt(s, x, Cardinality({j \in 1..Len(s) : PathLe(s[j], x)}))

\* sorted(listing) for a list of paths: a stable insertion sort
sorted_paths(seq) ==
    LET ins[i \in 0..Len(seq)] ==
            IF i = 0 THEN <<>> ELSE InsertPath(ins[i - 1], seq[i])
    IN  ins[Len(seq)]

\* base_dir.rglob("*.html"): the files below base_dir whose name matches
rglob(base_dir, files) ==
    {f \in files : IsUnder(f, base_dir) /\ endswith(name(f), s_dot_html)}

(***************************************************************************)
(* The functions of the program.                                           *)
(***************************************************************************)
get_file_type(filename) ==
    LET n == lower(filename)
    IN  IF Contains(s_heatmap, n) /\ endswith(n, s_dot_html)
        THEN [file_type |-> "Heatmap", type_class |-> "type-heatmap"]
        ELSE IF Contains(s_items, n) /\ endswith(n, s_dot_html)
        THEN [file_type |-> "Items", type_class |-> "type-dashboard"]
        ELSE IF Contains(s_locations, n) /\ endswith(n, s_dot_html)
        THEN [file_type |-> "Locations", type_class |-> "type-stats"]
        ELSE [file_type |-> "View", type_class |-> "type-other"]

EmptyTree == [k \in {} |-> <<>>]

\* tree[section][subsection].append(file) on a defaultdict of defaultdicts
TreeAppend(t, section, subsection, file) ==
    LET subs == IF section \in DOMAIN t THEN t[section] ELSE EmptyTree
        lst == IF subsection \in DOMAIN subs THEN subs[subsection] ELSE <<>>
        subs2 == [k \in (DOMAIN subs) \cup {subsection} |->
                     IF k = subsection THEN Append(lst, file) ELSE subs[k]]
    IN  [k \in (DOMAIN t) \cup {section} |->
            IF k = section THEN subs2 ELSE t[k]]

\* Place with the subsection taken from the directory that holds the file
Place_parent_dir(t, base_dir, file) ==
    IF name(file) = s_index_html THEN t
    ELSE LET parts == relative_to(file, base_dir)
         IN  IF Len(parts) = 1 THEN TreeAppend(t, s_Root, s_Files, file)
             ELSE IF Len(parts) = 2 THEN TreeAppend(t, parts[1], s_Files, file)
             ELSE TreeAppend(t, parts[1], parts[Len(parts) - 1], file)

\* the body of the loop of build_file_tree for one file
Place(t, base_dir, file) ==
    IF name(file) = s_index_html THEN t
    ELSE LET parts == relative_to(file, base_dir)
         IN  IF Len(parts) = 1 THEN TreeAppend(t, s_Root, s_Files, file)
             ELSE IF Len(parts) = 2 THEN TreeAppend(t, parts[1], s_Files, file)
             ELSE TreeAppend(t, parts[1], parts[2], file)

\* listing is the sequence rglob yields, in the order of the traversal
build_file_tree(base_dir, listing) ==
    LET PlaceAll(srt) ==
            LET loop[i \in 0..Len(srt)] ==
                    IF i = 0 THEN EmptyTree
                    ELSE Place(loop[i - 1], base_dir, srt[i])
            IN  loop[Len(srt)]
    IN  PlaceAll(sorted_paths(listing))

\* sort_key without the lower() of the name
sort_key_case_sensitive(f) ==
    LET n == lower(name(f))
    IN  IF Contains(s_heatmap, n) THEN <<0, name(f)>>
        ELSE IF Contains(s_items, n) THEN <<1, name(f)>>
        ELSE IF Contains(s_locations, n) THEN <<2, name(f)>>
        ELSE <<3, name(f)>>

sort_key(f) ==
    LET n == lower(name(f))
    IN  IF Contains(s_heatmap, n) THEN <<0, n>>
        ELSE IF Contains(s_items, n) THEN <<1, n>>
        ELSE IF Contains(s_locations, n) THEN <<2, n>>
        ELSE <<3, n>>

\* ka <= kb for two tuples of a number and a string
TupleLe(ka, kb) ==
    \/ ka[1] < kb[1]
    \/ ka[1] = kb[1] /\ ~StrLess(kb[2], ka[2])

\* sort_key(a) <= sort_key(b)
SortKeyLe(a, b) == TupleLe(sort_key(a), sort_key(b))

\* the list s, sorted by sort_key, with x inserted after the elements whose
\* key is not above its key: a stable insertion sort
InsertByKey(s, x) ==
    InsertAt(s, x, Cardinality({j \in 1..Len(s) : SortKeyLe(s[j], x)}))

\* sorted(files, key=sort_key)
sorted_by_key(seq) ==
    LET ins[i \in 0..Len(seq)] ==
            IF i = 0 THEN <<>> ELSE InsertByKey(ins[i - 1], seq[i])
    IN  ins[Len(seq)]

\* href made of the file name alone
href_name_only(f, output_dir) == <<name(f)>>

\* the href of a card
href(f, output_dir) ==
    IF IsUnder(f, output_dir) THEN relative_to(f, output_dir)
    ELSE relpath(f, output_dir)

IsHtml(f) == lower(suffix(f)) = s_dot_html

\* the cards of a bucket, in order; the empty sequence is the empty string
generate_cards(files, base_dir, output_dir) ==
    LET Card(f) ==
            [href |-> href(f, output_dir),
             file_type |-> get_file_type(name(f)).file_type,
             type_class |-> get_file_type(name(f)).type_class]
        Cards(shown) == [i \in 1..Len(shown) |-> Card(shown[i])]
    IN  Cards(SelectSeq(sorted_by_key(files), IsHtml))

\* the end of the body of the loop over SUBSECTION_ORDER: the fragment of a
\* subsection of the tree, added unless the bucket or its cards are empty
AppendSubsection(acc, subsection, files, cards_html) ==
    IF files = <<>> THEN acc
    ELSE IF cards_html = <<>> THEN acc
    ELSE [html |-> Append(acc.html,
                      [subsection |-> subsection,
                       header |-> subsection # s_Files,
                       cards |-> cards_html]),
          total_files |-> acc.total_files + Len(SelectSeq(files, IsHtml))]

\* the body of the loop of main over SUBSECTION_ORDER
SubsectionStep(acc, subsection, subsections, base_dir, output_dir) ==
    IF subsection \notin DOMAIN subsections THEN acc
    ELSE AppendSubsection(acc, subsection, subsections[subsection],
             generate_cards(subsections[subsection], base_dir, output_dir))

\* the loop of main over SUBSECTION_ORDER for one section
render_subsections(subsections, base_dir, output_dir) ==
    LET loop[i \in 0..Len(SUBSECTION_ORDER)] ==
            IF i = 0 THEN [html |-> <<>>, total_files |-> 0]
            ELSE SubsectionStep(loop[i - 1], SUBSECTION_ORDER[i], subsections,
                                base_dir, output_dir)
    IN  loop[Len(SUBSECTION_ORDER)]

\* AppendSection without the test of subsections_html
AppendSection_no_test(acc, section, sub) ==
    [html |-> Append(acc.html,
                  [section |-> section,
                   wrapper |-> section # s_Root,
                   subsections |-> sub.html]),
     total_files |-> acc.total_files + sub.total_files]

\* the end of the body of the loop over SECTION_ORDER: the fragment of a
\* section of the tree, added when one of its subsections was rendered
AppendSection(acc, section, sub) ==
    [html |-> IF sub.html # <<>>
              THEN Append(acc.html,
                       [section |-> section,
                        wrapper |-> section # s_Root,
                        subsections |-> sub.html])
              ELSE acc.html,
     total_files |-> acc.total_files + sub.total_files]

\* the body of the loop of main over SECTION_ORDER
SectionStep(acc, section, t, base_dir, output_dir) ==
    IF section \notin DOMAIN t THEN acc
    ELSE AppendSection(acc, section,
             render_subsections(t[section], base_dir, output_dir))

\* render_sections looping over the sections of the tree
render_sections_tree_keys(t, base_dir, output_dir) ==
    LET keys == SetToSeq(DOMAIN t)
        loop[i \in 0..Cardinality(DOMAIN t)] ==
            IF i = 0 THEN [html |-> <<>>, total_files |-> 0]
            ELSE SectionStep(loop[i - 1], keys[i], t, base_dir, output_dir)
    IN  loop[Cardinality(DOMAIN t)]

\* the loop of main over SECTION_ORDER
render_sections(t, base_dir, output_dir) ==
    LET loop[i \in 0..Len(SECTION_ORDER)] ==
            IF i = 0 THEN [html |-> <<>>, total_files |-> 0]
            ELSE SectionStep(loop[i - 1], SECTION_ORDER[i], t, base_dir, output_dir)
    IN  loop[Len(SECTION_ORDER)]

\* format_document without the fallback to the placeholder
format_document_no_fallback(sections_html, timestamp) ==
    [sections |-> sections_html,
     placeholder |-> FALSE,
     timestamp |-> timestamp]

\* TEMPLATE.format(content, timestamp)
format_document(sections_html, timestamp) ==
    [sections |-> sections_html,
     placeholder |-> (sections_html = <<>>),
     timestamp |-> timestamp]

\* the line main prints at its end
format_summary(path, total_files, t) ==
    [path |-> path, files |-> total_files, sections |-> Cardinality(DOMAIN t)]

(***************************************************************************)
(* Inputs.                                                                 *)
(***************************************************************************)
s_Archipelago == <<"A","r","c","h","i","p","e","l","a","g","o">>
s_misc == <<"m","i","s","c">>
s_deep == <<"d","e","e","p">>
s_a_html == <<"a">> \o s_dot_html
s_B_html == <<"B">> \o s_dot_html
s_z_heatmap_html == <<"z">> \o s_heatmap \o s_dot_html
s_y_Items_html == <<"y","-","I","t","e","m","s">> \o s_dot_html
s_x_locations_html == <<"x">> \o s_locations \o s_dot_html
s_notes_csv == <<"n",".","c","s","v">>
s_out_html == <<"o","u","t">> \o s_dot_html

\* args.target_dir, resolved
BaseDir == << <<"r","e","p">> >>

SiteDir == << <<"s","i","t","e">> >>

\* args.output: None, a file inside the target directory, a file outside
None == <<>>

OutputArgs == {None, BaseDir \o <<s_out_html>>, SiteDir \o <<s_index_html>>}

Folders == { <<>>, <<s_archipelago>>, <<s_archipelago, s_p1, s_deep>>,
             <<s_archipelago, s_misc>>, <<s_Archipelago>> }

CoreNames == {s_a_html, s_index_html}

MoreNames == {s_B_html, s_z_heatmap_html, s_y_Items_html, s_x_locations_html,
              s_notes_csv}

\* the files a target directory may hold before the first run
Universe ==
    {BaseDir \o d \o <<n>> : d \in Folders, n \in CoreNames}
        \cup {BaseDir \o <<s_archipelago, s_p1, n>> : n \in MoreNames}

\* the orders in which a traversal lists a set of files: an enumeration of
\* the set and its reverse stand for all of them
Traversals(S) == {SetToSeq(S), Reverse(SetToSeq(S))}

(***************************************************************************)
(* The state machine: one run of main per step.                            *)
(***************************************************************************)
NoDocument == [sections |-> <<>>, placeholder |-> FALSE, timestamp |-> 0]

NoSummary == [path |-> <<>>, files |-> 0, sections |-> 0]

Init ==
    /\ \/ /\ dirs = {BaseDir}
          /\ fs \in {S \in SUBSET Universe : Cardinality(S) <= MaxFiles}
       \/ /\ dirs = {}
          /\ fs = {}
    /\ runs = 0
    /\ status = "none"
    /\ output_path = <<>>
    /\ tree = EmptyTree
    /\ output_html = NoDocument
    /\ summary = NoSummary

\* Path.mkdir(parents=True, exist_ok=True)
mkdir(d) == {SubSeq(d, 1, k) : k \in 1..Len(d)}

\* the end of main: the document is written and the summary printed
main_write(path, t, r) ==
    /\ runs < MaxRuns
    /\ runs' = runs + 1
    /\ output_path' = path
    /\ tree' = t
    /\ output_html' = format_document(r.html, runs + 1)
    /\ dirs' = dirs \cup mkdir(parent(path))
    /\ fs' = fs \cup {path}
    /\ summary' = format_summary(path, r.total_files, t)
    /\ status' = "ok"

\* the middle of main: the tree is rendered
main_render(path, t) ==
    main_write(path, t, render_sections(t, BaseDir, parent(path)))

\* one run of main; listing is what the traversal of the target yields
main(output, listing) ==
    main_render(IF output = None THEN BaseDir \o <<s_index_html>> ELSE output,
                build_file_tree(BaseDir, listing))

Next ==
    \E output \in OutputArgs :
        \E listing \in Traversals(rglob(BaseDir, fs)) : main(output, listing)

Spec == Init /\ [][Next]_vars

(***************************************************************************)
(* Vocabulary of the properties.                                           *)
(***************************************************************************)
Range(s) == {s[i] : i \in 1..Len(s)}

IndexIn(s, x) == CHOOSE k \in 1..Len(s) : s[k] = x

\* the positions <<section, subsection, card>> of the cards of the document
DocCards ==
    {p \in (1..Len(SECTION_ORDER)) \X (1..Len(SUBSECTION_ORDER))
               \X (1..(MaxFiles + MaxRuns)) :
        /\ p[1] <= Len(output_html.sections)
        /\ p[2] <= Len(output_html.sections[p[1]].subsections)
        /\ p[3] <= Len(output_html.sections[p[1]].subsections[p[2]].cards)}

CardAt(p) == output_html.sections[p[1]].subsections[p[2]].cards[p[3]]

\* the file an href leads to, from the directory of the document
Resolve(dir, h) ==
    LET walk[i \in 0..Len(h)] ==
            IF i = 0 THEN dir
            ELSE IF h[i] = s_dotdot THEN parent(walk[i - 1])
            ELSE Append(walk[i - 1], h[i])
    IN  walk[Len(h)]

Target(p) == Resolve(parent(output_path), CardAt(p).href)

\* the number of links of the document to the file f
LinkCount(f) == Cardinality({p \in DocCards : Target(p) = f})

\* the entries <<section, subsection, index>> of the tree
TreeEntries ==
    {e \in (DOMAIN tree) \X (UNION {DOMAIN tree[sec] : sec \in DOMAIN tree})
               \X (1..(MaxFiles + MaxRuns)) :
        /\ e[2] \in DOMAIN tree[e[1]]
        /\ e[3] <= Len(tree[e[1]][e[2]])}

FileAt(e) == tree[e[1]][e[2]][e[3]]

TreeFiles == {FileAt(e) : e \in TreeEntries}

Recognized(e) == e[1] \in Range(SECTION_ORDER) /\ e[2] \in Range(SUBSECTION_ORDER)

HasHtmlExtension(f) == endswith(lower(name(f)), s_dot_html)

\* the rank of a category label in the order Heatmap, Items, Locations, View
CategoryRank(label) ==
    IndexIn(<<"Heatmap", "Items", "Locations", "View">>, label)

C2_BucketByDepth ==
    status = "ok" =>
        /\ \A e \in TreeEntries :
               LET parts == relative_to(FileAt(e), BaseDir)
               IN  /\ IsUnder(FileAt(e), BaseDir)
                   /\ Len(parts) = 1 => (e[1] = s_Root /\ e[2] = s_Files)
                   /\ Len(parts) = 2 => (e[1] = parts[1] /\ e[2] = s_Files)
                   /\ Len(parts) >= 3 => (e[1] = parts[1] /\ e[2] = parts[2])
        /\ \A e1, e2 \in TreeEntries : FileAt(e1) = FileAt(e2) => e1 = e2
        /\ \A f \in rglob(BaseDir, fs) :
               (name(f) # s_index_html /\ f # output_path) => f \in TreeFiles

\* a tree with a file of depth 4 and a file of depth 3 in the same bucket
C2_Witness ==
    /\ status = "ok"
    /\ \E e1, e2 \in TreeEntries :
           /\ e1 # e2
           /\ e1[1] = e2[1] /\ e1[2] = e2[2]
           /\ Len(relative_to(FileAt(e1), BaseDir)) = 4
           /\ Len(relative_to(FileAt(e2), BaseDir)) = 3

(***************************************************************************)
(* C3: the sections of the document are members of SECTION_ORDER and come  *)
(* in the order of SECTION_ORDER; the subsections of a section are members *)
(* of SUBSECTION_ORDER and come in the order of SUBSECTION_ORDER; a file   *)
(* of a section or subsection that is not in its list is linked nowhere,   *)
(* and the run still ends well.                                            *)
(***************************************************************************)
C3_RecognizedInOrder ==
    status = "ok" =>
        LET secs == output_html.sections
        IN  /\ \A i \in 1..Len(secs) : secs[i].section \in Range(SECTION_ORDER)
            /\ \A i, j \in 1..Len(secs) :
                   i < j => IndexIn(SECTION_ORDER, secs[i].section)
                                < IndexIn(SECTION_ORDER, secs[j].section)
            /\ \A i \in 1..Len(secs) :
                   LET subs == secs[i].subsections
                   IN  /\ \A k \in 1..Len(subs) :
                              subs[k].subsection \in Range(SUBSECTION_ORDER)
                       /\ \A k, l \in 1..Len(subs) :
                              k < l => IndexIn(SUBSECTION_ORDER, subs[k].subsection)
                                           < IndexIn(SUBSECTION_ORDER, subs[l].subsection)
            /\ \A e \in TreeEntries :
                   ~Recognized(e) => LinkCount(FileAt(e)) = 0

\* a document of two sections, from a tree that holds the section Archipelago
C3_Witness ==
    /\ status = "ok"
    /\ s_Archipelago \in DOMAIN tree
    /\ Len(output_html.sections) = 2

(***************************************************************************)
(* C4: the cards of a bucket come by category, Heatmap then Items then     *)
(* Locations then View, the category being the label the card shows, and   *)
(* within a category by ascending lower-cased file name.                   *)
(***************************************************************************)
C4_CardOrder ==
    status = "ok" =>
        \A p, q \in DocCards :
            (p[1] = q[1] /\ p[2] = q[2] /\ p[3] < q[3]) =>
                LET a == CardAt(p)
                    b == CardAt(q)
                IN  /\ CategoryRank(a.file_type) <= CategoryRank(b.file_type)
                    /\ a.file_type = b.file_type
                           => ~StrLess(lower(name(b.href)), lower(name(a.href)))

\* a bucket that shows a heatmap, then a.html, then B.html
C4_Witness ==
    /\ status = "ok"
    /\ \E p, q, r \in DocCards :
           /\ p[1] = q[1] /\ p[2] = q[2] /\ p[3] < q[3]
           /\ q[1] = r[1] /\ q[2] = r[2] /\ q[3] < r[3]
           /\ CardAt(p).file_type = "Heatmap"
           /\ name(CardAt(q).href) = s_a_html
           /\ name(CardAt(r).href) = s_B_html

(***************************************************************************)
(* C5: a run over a missing root directory ends in an error, writes no     *)
(* document and creates no directory.                                      *)
(***************************************************************************)
C5_MissingRootIsFatal ==
    [][(BaseDir \notin dirs /\ runs' # runs)
          => (status' = "error" /\ fs' = fs /\ dirs' = dirs)]_vars

(***************************************************************************)
(* C6: the section count of the summary is the number of sections of the   *)
(* document that hold at least one file entry.                             *)
(***************************************************************************)
C6_SectionCount ==
    status = "ok" =>
        summary.sections = Cardinality({p[1] : p \in DocCards})

(***************************************************************************)
(* C7: after every run the document has no link to itself, the output file *)
(* is not in the tree, and every other .html file below the root is in the *)
(* tree.                                                                   *)
(***************************************************************************)
C7_OnlyOutputExcluded ==
    status = "ok" =>
        /\ \A p \in DocCards : Target(p) # output_path
        /\ output_path \notin TreeFiles
        /\ \A f \in rglob(BaseDir, fs) : f # output_path => f \in TreeFiles

(***************************************************************************)
(* C8: the document holds the placeholder exactly when it holds no file    *)
(* entry, and a run over a root with no matching file ends well with the   *)
(* placeholder and a summary of zero files and zero sections.              *)
(***************************************************************************)
C8_PlaceholderIffEmpty ==
    /\ [](status = "ok" => (output_html.placeholder <=> DocCards = {}))
    /\ [][(rglob(BaseDir, fs) = {} /\ runs' # runs)
             => /\ status' = "ok"
                /\ output_html'.placeholder
                /\ summary'.files = 0
                /\ summary'.sections = 0]_vars

\* a document with the placeholder, from a root that holds no .html file
C8_Witness ==
    /\ status = "ok"
    /\ output_html.placeholder
    /\ rglob(BaseDir, fs \ {output_path}) = {}
    /\ summary.files = 0
    /\ summary.sections = 0

(***************************************************************************)
(* C9: two runs in a row with the same output path, over the same report   *)
(* files, give the same document but for the timestamp.                    *)
(***************************************************************************)
C9_Idempotent ==
    [][(status = "ok" /\ runs' # runs /\ output_path' = output_path
            /\ fs' \ {output_path} = fs \ {output_path})
          => /\ output_html'.sections = output_html.sections
             /\ output_html'.placeholder = output_html.placeholder]_vars

(***************************************************************************)
(* C10: every section of the document has a subsection, every subsection   *)
(* of the document has a card, and a section of SECTION_ORDER whose files  *)
(* all lie in subsections outside SUBSECTION_ORDER is not in the document. *)
(***************************************************************************)
C10_NoEmptySection ==
    status = "ok" =>
        LET secs == output_html.sections
        IN  /\ \A i \in 1..Len(secs) :
                   /\ secs[i].subsections # <<>>
                   /\ \A k \in 1..Len(secs[i].subsections) :
                          secs[i].subsections[k].cards # <<>>
            /\ \A sec \in DOMAIN tree :
                   (DOMAIN tree[sec]) \cap Range(SUBSECTION_ORDER) = {}
                       => \A i \in 1..Len(secs) : secs[i].section # sec

\* a tree whose section archipelago holds the subsection misc alone, beside
\* a document that links another file
C10_Witness ==
    /\ status = "ok"
    /\ s_archipelago \in DOMAIN tree
    /\ DOMAIN tree[s_archipelago] = {s_misc}
    /\ DocCards # {}
    /\ \A i \in 1..Len(output_html.sections) :
           output_html.sections[i].section # s_archipelago

====
